---- MODULE Spec2Model ----
(***************************************************************************)
(* LedPrinter (src/lib.rs): one controller thread calling display(), the   *)
(* animation threads it spawns, and an external reader of the draw target. *)
(* Every action is one step between two accesses to shared state (the      *)
(* Mutex<bool>, the RwLock<Target>, the JoinHandle).                        *)
(***************************************************************************)
EXTENDS Integers, FiniteSets, Sequences, TLC

\* ---- bounds of the model ------------------------------------------------
MaxCalls == 2
TickCap == 5
ScenarioTicks == 920
MaxWidth == 3
EngineSteps == 17

\* ---- program constants --------------------------------------------------
step_period == 10

\* Speeds a controller is constructed with, and the texts a caller passes.
Spps == {0, 15}
Texts == {"", "A", "B"}

Tasks == 1..MaxCalls

VARIABLES
    scroll_spp_ms,   \* LedPrinter.scroll_spp_ms
    display_task,    \* LedPrinter.display_task: 0 is None, else the task held
    controller,      \* *display_task_controller, the shared bool
    mutex,           \* owner of the Mutex: 0 free, -1 display(), else a task
    canvas,          \* the draw target: background and the frames painted on it
    rw,              \* the RwLock around it
    pc_ctrl,         \* where the caller of display() stands
    handle,          \* display()'s local `handle`
    calls,           \* display() calls made so far
    request,         \* request[c]: the text of call c
    task,            \* task[t]: locals of the thread spawned by call t
    stopped,         \* tasks whose stop signal has been delivered
    joined,          \* tasks whose join has completed
    horizon          \* how far the counters ticks, steps and writes count

vars == <<scroll_spp_ms, display_task, controller, mutex, canvas, rw, pc_ctrl,
          handle, calls, request, task, stopped, joined, horizon>>

Min(a, b) == IF a < b THEN a ELSE b

\* FontRenderer::get_rendered_dimensions(..).bounding_box is None for a text
\* that renders no pixel.
HasBox(text) == text # ""

\* `.bounding_box.unwrap().size.width as i32` of the texts used here.
BoxWidth(text) ==
    CASE text = "Z" -> 0
      [] text = "A" -> 1
      [] text = "B" -> 2
      [] text = "W50" -> 50
      [] OTHER -> 0

\* The turn at the right end tested with > in place of ==.
ScrollStepOvershoots(x, dir, width) ==
    IF dir = "Left"
    THEN IF x = 0 THEN [x_pos |-> x, direction |-> "Right"]
                  ELSE [x_pos |-> x - 1, direction |-> "Left"]
    ELSE IF x > width THEN [x_pos |-> x, direction |-> "Left"]
                      ELSE [x_pos |-> x + 1, direction |-> "Right"]

\* A turn that also moves: no update is spent at the ends.
ScrollStepNoDwell(x, dir, width) ==
    IF dir = "Left"
    THEN IF x = 0 THEN [x_pos |-> x + 1, direction |-> "Right"]
                  ELSE [x_pos |-> x - 1, direction |-> "Left"]
    ELSE IF x = width THEN [x_pos |-> x - 1, direction |-> "Left"]
                      ELSE [x_pos |-> x + 1, direction |-> "Right"]

\* The turn at the left end also moves.
ScrollStepLeftNoDwell(x, dir, width) ==
    IF dir = "Left"
    THEN IF x = 0 THEN [x_pos |-> x + 1, direction |-> "Right"]
                  ELSE [x_pos |-> x - 1, direction |-> "Left"]
    ELSE IF x = width THEN [x_pos |-> x, direction |-> "Left"]
                      ELSE [x_pos |-> x + 1, direction |-> "Right"]

\* The match on `direction` of the frame loop: the bounce rule.
ScrollStep(x, dir, width) ==
    IF dir = "Left"
    THEN IF x = 0 THEN [x_pos |-> x, direction |-> "Right"]
                  ELSE [x_pos |-> x - 1, direction |-> "Left"]
    ELSE IF x = width THEN [x_pos |-> x, direction |-> "Left"]
                      ELSE [x_pos |-> x + 1, direction |-> "Right"]

\* The comparison with >= in place of >.
UpdateDueAtEqual(previous_update, spp) == previous_update * step_period >= spp

\* `previous_update * step_period > spp`
UpdateDue(previous_update, spp) == previous_update * step_period > spp

EmptyCanvas == [bg |-> 0, frames |-> {}]

\* A thread that has not been spawned yet.
NoTask ==
    [pc |-> "unspawned", width |-> 0, x_pos |-> 0, direction |-> "Right",
     previous_update |-> 0, running |-> FALSE, ticks |-> 0, steps |-> 0,
     writes |-> 0, late_sleeps |-> 0, late_writes |-> 0]

\* LedPrinter::new
New(spp, h) ==
    /\ horizon = h
    /\ scroll_spp_ms = spp
    /\ display_task = 0
    /\ controller = FALSE
    /\ mutex = 0
    /\ canvas = EmptyCanvas
    /\ rw = [writer |-> 0, readers |-> 0, poisoned |-> FALSE]
    /\ pc_ctrl = "idle"
    /\ handle = 0
    /\ calls = 0
    /\ request = [c \in Tasks |-> ""]
    /\ task = [t \in Tasks |-> NoTask]
    /\ stopped = {}
    /\ joined = {}

Init == \E spp \in Spps : New(spp, TickCap)

\* ---- display() ----------------------------------------------------------

\* display() that forgets the previous thread: no stop, no join.
DisplayNoJoin(text) ==
    /\ pc_ctrl = "idle"
    /\ calls' = calls + 1
    /\ request' = [request EXCEPT ![calls + 1] = text]
    /\ handle' = display_task
    /\ display_task' = 0
    /\ pc_ctrl' = "start"
    /\ UNCHANGED <<scroll_spp_ms, controller, mutex, canvas, rw, task, stopped, joined, horizon>>

\* display(): `self.display_task.take()`
Display(text) ==
    /\ pc_ctrl = "idle"
    /\ calls' = calls + 1
    /\ request' = [request EXCEPT ![calls + 1] = text]
    /\ handle' = display_task
    /\ display_task' = 0
    /\ pc_ctrl' = IF display_task # 0 THEN "stop" ELSE "start"
    /\ UNCHANGED <<scroll_spp_ms, controller, mutex, canvas, rw, task, stopped, joined, horizon>>

DisplayCall == \E text \in Texts : calls < MaxCalls /\ Display(text)

\* lock, `*task_controller = false`, drop
DisplayStop ==
    /\ pc_ctrl = "stop"
    /\ mutex = 0
    /\ controller' = FALSE
    /\ stopped' = stopped \cup {handle}
    /\ pc_ctrl' = "join"
    /\ UNCHANGED <<scroll_spp_ms, display_task, mutex, canvas, rw, handle, calls,
                   request, task, joined, horizon>>

\* A join that returns while the thread is still running.
DisplayJoinNoWait ==
    /\ pc_ctrl = "join"
    /\ task[handle].pc # "panicked"
    /\ joined' = joined \cup {handle}
    /\ pc_ctrl' = "start"
    /\ UNCHANGED <<scroll_spp_ms, display_task, controller, mutex, canvas, rw,
                   handle, calls, request, task, stopped, horizon>>

\* `handle.join().unwrap()`, the thread returned. The counts of what it did
\* after the signal end with the join.
DisplayJoin ==
    /\ pc_ctrl = "join"
    /\ task[handle].pc = "done"
    /\ joined' = joined \cup {handle}
    /\ task' = [task EXCEPT ![handle].late_sleeps = 0, ![handle].late_writes = 0]
    /\ pc_ctrl' = "start"
    /\ UNCHANGED <<scroll_spp_ms, display_task, controller, mutex, canvas, rw,
                   handle, calls, request, stopped, horizon>>

\* `handle.join().unwrap()`, the thread panicked: join is Err, unwrap panics
DisplayJoinPanic ==
    /\ pc_ctrl = "join"
    /\ task[handle].pc = "panicked"
    /\ joined' = joined \cup {handle}
    /\ pc_ctrl' = "panicked"
    /\ UNCHANGED <<scroll_spp_ms, display_task, controller, mutex, canvas, rw,
                   handle, calls, request, task, stopped, horizon>>

\* A start that takes the lock and leaves the flag as the stop request left it.
DisplayStartKeepsFlag ==
    /\ pc_ctrl = "start"
    /\ mutex = 0
    /\ mutex' = -1
    /\ pc_ctrl' = "spawn"
    /\ UNCHANGED <<scroll_spp_ms, display_task, controller, canvas, rw, handle, calls,
                   request, task, stopped, joined, horizon>>

\* lock, `*task_controller = true`; the guard lives to the end of display()
DisplayStart ==
    /\ pc_ctrl = "start"
    /\ mutex = 0
    /\ mutex' = -1
    /\ controller' = TRUE
    /\ pc_ctrl' = "spawn"
    /\ UNCHANGED <<scroll_spp_ms, display_task, canvas, rw, handle, calls,
                   request, task, stopped, joined, horizon>>

\* A spawn whose handle is not kept.
DisplaySpawnDetached ==
    /\ pc_ctrl = "spawn"
    /\ task' = [task EXCEPT ![calls] = [NoTask EXCEPT !.pc = "measure"]]
    /\ pc_ctrl' = "return"
    /\ UNCHANGED <<scroll_spp_ms, display_task, controller, mutex, canvas, rw, handle,
                   calls, request, stopped, joined, horizon>>

\* `self.display_task.insert(spawn(..))`
DisplaySpawn ==
    /\ pc_ctrl = "spawn"
    /\ task' = [task EXCEPT ![calls] = [NoTask EXCEPT !.pc = "measure"]]
    /\ display_task' = calls
    /\ pc_ctrl' = "return"
    /\ UNCHANGED <<scroll_spp_ms, controller, mutex, canvas, rw, handle, calls,
                   request, stopped, joined, horizon>>

\* end of display(): the guard of the second lock is dropped
DisplayReturn ==
    /\ pc_ctrl = "return"
    /\ mutex' = 0
    /\ pc_ctrl' = "idle"
    /\ UNCHANGED <<scroll_spp_ms, display_task, controller, canvas, rw, handle,
                   calls, request, task, stopped, joined, horizon>>

\* A drop that signals the thread to stop, as a Drop impl would.
DropPrinterStops ==
    /\ pc_ctrl = "idle"
    /\ mutex = 0
    /\ controller' = FALSE
    /\ pc_ctrl' = "dropped"
    /\ UNCHANGED <<scroll_spp_ms, display_task, mutex, canvas, rw,
                   handle, calls, request, task, stopped, joined, horizon>>

\* The LedPrinter is dropped: no Drop impl, the JoinHandle is detached.
DropPrinter ==
    /\ pc_ctrl = "idle"
    /\ pc_ctrl' = "dropped"
    /\ UNCHANGED <<scroll_spp_ms, display_task, controller, mutex, canvas, rw,
                   handle, calls, request, task, stopped, joined, horizon>>

\* ---- display_task(), the spawned thread ---------------------------------

OtherVars == <<scroll_spp_ms, display_task, pc_ctrl, handle, calls, request,
               stopped, joined, horizon>>

\* `target.write().unwrap()`: the write guard is taken. (A poisoned lock would
\* make unwrap panic; only a thread of this printer can poison it, and the
\* join of that thread panics display() before another thread is spawned.)
WriteLock(t, from, to) ==
    /\ task[t].pc = from
    /\ rw.writer = 0 /\ rw.readers = 0 /\ ~rw.poisoned
    /\ rw' = [rw EXCEPT !.writer = t]
    /\ task' = [task EXCEPT ![t].pc = to]
    /\ UNCHANGED <<controller, mutex, canvas, OtherVars>>

\* A clear that changes the background and leaves the painted text.
ClearKeepsFrames(t, from, to) ==
    /\ task[t].pc = from
    /\ canvas' = [canvas EXCEPT !.bg = t]
    /\ task' = [task EXCEPT ![t].pc = to]
    /\ UNCHANGED <<controller, mutex, rw, OtherVars>>

\* `target_locked.clear(black)`
Clear(t, from, to) ==
    /\ task[t].pc = from
    /\ canvas' = [bg |-> t, frames |-> {}]
    /\ task' = [task EXCEPT ![t].pc = to]
    /\ UNCHANGED <<controller, mutex, rw, OtherVars>>

\* A count of what thread t does between its stop signal and its join: it
\* goes up to 2.
Late(t, n) == IF t \in stopped /\ t \notin joined THEN Min(n + 1, 2) ELSE n

\* A render at the offset of the next scroll state.
RenderAtNextOffset(t, from, to) ==
    /\ task[t].pc = from
    /\ canvas' = [canvas EXCEPT !.frames = @ \cup
           {<<t, ScrollStep(task[t].x_pos, task[t].direction, task[t].width).x_pos>>}]
    /\ task' = [task EXCEPT ![t].pc = to,
                            ![t].writes = Min(@ + 1, horizon),
                            ![t].late_writes = Late(t, @)]
    /\ UNCHANGED <<controller, mutex, rw, OtherVars>>

\* `renderer.render(.., Point::new(-x_pos, -1), .., FontColor::Transparent(color), ..)`:
\* the text is painted over what the target holds.
Render(t, from, to) ==
    /\ task[t].pc = from
    /\ canvas' = [canvas EXCEPT !.frames = @ \cup {<<t, task[t].x_pos>>}]
    /\ task' = [task EXCEPT ![t].pc = to,
                            ![t].writes = Min(@ + 1, horizon),
                            ![t].late_writes = Late(t, @)]
    /\ UNCHANGED <<controller, mutex, rw, OtherVars>>

\* render(..) is Err (the target refuses a pixel): unwrap panics with the
\* write guard alive, which poisons the lock as the guard is dropped.
RenderFails(t, from) ==
    /\ task[t].pc = from
    /\ rw' = [rw EXCEPT !.writer = 0, !.poisoned = TRUE]
    /\ task' = [task EXCEPT ![t].pc = "panicked"]
    /\ UNCHANGED <<controller, mutex, canvas, OtherVars>>

\* A thread that enters its loop without the first frame.
TaskMeasureSkipsPriming(t) ==
    /\ task[t].pc = "measure"
    /\ HasBox(request[t])
    /\ task' = [task EXCEPT ![t] = [NoTask EXCEPT !.pc = "loop",
                                                  !.width = BoxWidth(request[t]),
                                                  !.running = TRUE]]
    /\ UNCHANGED <<controller, mutex, canvas, rw, OtherVars>>

\* A thread that takes up the scroll state its predecessor stopped at.
TaskMeasureResumes(t) ==
    /\ task[t].pc = "measure"
    /\ HasBox(request[t])
    /\ LET prev == IF t > 1 THEN task[t - 1] ELSE NoTask
       IN task' = [task EXCEPT ![t] = [NoTask EXCEPT !.pc = "prime_lock",
                                                     !.width = BoxWidth(request[t]),
                                                     !.x_pos = prev.x_pos,
                                                     !.direction = prev.direction,
                                                     !.running = TRUE]]
    /\ UNCHANGED <<controller, mutex, canvas, rw, OtherVars>>

\* Lines 43-50: the renderer, the width, the locals.
TaskMeasure(t) ==
    /\ task[t].pc = "measure"
    /\ HasBox(request[t])
    /\ task' = [task EXCEPT ![t] = [NoTask EXCEPT !.pc = "prime_lock",
                                                  !.width = BoxWidth(request[t]),
                                                  !.running = TRUE]]
    /\ UNCHANGED <<controller, mutex, canvas, rw, OtherVars>>

\* `.bounding_box.unwrap()` on None
TaskMeasureFails(t) ==
    /\ task[t].pc = "measure"
    /\ ~HasBox(request[t])
    /\ task' = [task EXCEPT ![t].pc = "panicked"]
    /\ UNCHANGED <<controller, mutex, canvas, rw, OtherVars>>

TaskPrimeLock(t) == WriteLock(t, "prime_lock", "prime_clear")
TaskPrimeClear(t) == Clear(t, "prime_clear", "prime_render")
TaskPrimeRender(t) == Render(t, "prime_render", "prime_drop")
TaskPrimeRenderFails(t) == RenderFails(t, "prime_render")

\* A priming whose write guard lives on into the loop.
TaskPrimeDropKeepsGuard(t) ==
    /\ task[t].pc = "prime_drop"
    /\ task' = [task EXCEPT ![t].pc = "loop"]
    /\ UNCHANGED <<controller, mutex, canvas, rw, OtherVars>>

\* `drop(target_locked)` before the loop
TaskPrimeDrop(t) ==
    /\ task[t].pc = "prime_drop"
    /\ rw' = [rw EXCEPT !.writer = 0]
    /\ task' = [task EXCEPT ![t].pc = "loop"]
    /\ UNCHANGED <<controller, mutex, canvas, OtherVars>>

\* `while running` is false: the thread returns
TaskExit(t) ==
    /\ task[t].pc = "loop"
    /\ ~task[t].running
    /\ task' = [task EXCEPT ![t].pc = "done"]
    /\ UNCHANGED <<controller, mutex, canvas, rw, OtherVars>>

\* The else branch taken without looking at `running`.
TaskWaitIgnoresRunning(t) ==
    /\ task[t].pc = "loop"
    /\ ~UpdateDue(task[t].previous_update, scroll_spp_ms)
    /\ task' = [task EXCEPT ![t].pc = "sleep", ![t].previous_update = @ + 1]
    /\ UNCHANGED <<controller, mutex, canvas, rw, OtherVars>>

\* the else branch: `previous_update += 1`
TaskWait(t) ==
    /\ task[t].pc = "loop"
    /\ task[t].running
    /\ ~UpdateDue(task[t].previous_update, scroll_spp_ms)
    /\ task' = [task EXCEPT ![t].pc = "sleep", ![t].previous_update = @ + 1]
    /\ UNCHANGED <<controller, mutex, canvas, rw, OtherVars>>

\* the if branch is entered
TaskDue(t) ==
    /\ task[t].pc = "loop"
    /\ task[t].running
    /\ UpdateDue(task[t].previous_update, scroll_spp_ms)
    /\ task' = [task EXCEPT ![t].pc = "anim_lock"]
    /\ UNCHANGED <<controller, mutex, canvas, rw, OtherVars>>

TaskAnimLock(t) == WriteLock(t, "anim_lock", "anim_clear")
\* A clear on a temporary guard, which is dropped with the statement.
TaskAnimClearUnlocks(t) ==
    /\ task[t].pc = "anim_clear"
    /\ canvas' = [bg |-> t, frames |-> {}]
    /\ rw' = [rw EXCEPT !.writer = 0]
    /\ task' = [task EXCEPT ![t].pc = "anim_render"]
    /\ UNCHANGED <<controller, mutex, OtherVars>>

TaskAnimClear(t) == Clear(t, "anim_clear", "anim_render")
TaskAnimRender(t) == Render(t, "anim_render", "anim_drop")
TaskAnimRenderFails(t) == RenderFails(t, "anim_render")

\* The repaint without `previous_update = 0`.
TaskAnimDropNoReset(t) ==
    /\ task[t].pc = "anim_drop"
    /\ rw' = [rw EXCEPT !.writer = 0]
    /\ LET next == ScrollStep(task[t].x_pos, task[t].direction, task[t].width)
       IN task' = [task EXCEPT ![t].pc = "sleep",
                               ![t].x_pos = next.x_pos,
                               ![t].direction = next.direction,
                               ![t].steps = Min(@ + 1, horizon)]
    /\ UNCHANGED <<controller, mutex, canvas, OtherVars>>

\* `drop(target_locked)`, the match on direction, `previous_update = 0`
TaskAnimDrop(t) ==
    /\ task[t].pc = "anim_drop"
    /\ rw' = [rw EXCEPT !.writer = 0]
    /\ LET next == ScrollStep(task[t].x_pos, task[t].direction, task[t].width)
       IN task' = [task EXCEPT ![t].pc = "sleep",
                               ![t].x_pos = next.x_pos,
                               ![t].direction = next.direction,
                               ![t].previous_update = 0,
                               ![t].steps = Min(@ + 1, horizon)]
    /\ UNCHANGED <<controller, mutex, canvas, OtherVars>>

\* `sleep(Duration::from_millis(step_period))`
TaskSleep(t) ==
    /\ task[t].pc = "sleep"
    /\ task' = [task EXCEPT ![t].pc = "check", ![t].ticks = Min(@ + 1, horizon),
                            ![t].late_sleeps = Late(t, @)]
    /\ UNCHANGED <<controller, mutex, canvas, rw, OtherVars>>

\* The lock is taken but the flag is not copied into `running`.
TaskCheckIgnoresFlag(t) ==
    /\ task[t].pc = "check"
    /\ mutex = 0
    /\ mutex' = t
    /\ task' = [task EXCEPT ![t].pc = "println"]
    /\ UNCHANGED <<controller, canvas, rw, OtherVars>>

\* A check that takes the signal and sets the flag back.
TaskCheckConsumesFlag(t) ==
    /\ task[t].pc = "check"
    /\ mutex = 0
    /\ mutex' = t
    /\ controller' = TRUE
    /\ task' = [task EXCEPT ![t].pc = "println", ![t].running = controller]
    /\ UNCHANGED <<canvas, rw, OtherVars>>

\* `let controller = task_controller.lock().unwrap(); running = *controller;`
TaskCheck(t) ==
    /\ task[t].pc = "check"
    /\ mutex = 0
    /\ mutex' = t
    /\ task' = [task EXCEPT ![t].pc = "println", ![t].running = controller]
    /\ UNCHANGED <<controller, canvas, rw, OtherVars>>

\* println!, then the guard `controller` goes out of scope
TaskUnlock(t) ==
    /\ task[t].pc = "println"
    /\ mutex' = 0
    /\ task' = [task EXCEPT ![t].pc = "loop"]
    /\ UNCHANGED <<controller, canvas, rw, OtherVars>>

\* ---- the reader of the draw target (`screen.read().unwrap()`) -----------

ReaderAcquire ==
    /\ rw.writer = 0 /\ rw.readers = 0 /\ ~rw.poisoned
    /\ rw' = [rw EXCEPT !.readers = 1]
    /\ UNCHANGED <<controller, mutex, canvas, task, OtherVars>>

ReaderRelease ==
    /\ rw.readers = 1
    /\ rw' = [rw EXCEPT !.readers = 0]
    /\ UNCHANGED <<controller, mutex, canvas, task, OtherVars>>

TaskStep(t) ==
    \/ TaskMeasure(t) \/ TaskMeasureFails(t) \/ TaskPrimeLock(t) \/ TaskPrimeClear(t)
    \/ TaskPrimeRender(t) \/ TaskPrimeDrop(t)
    \/ TaskExit(t) \/ TaskWait(t) \/ TaskDue(t)
    \/ TaskAnimLock(t) \/ TaskAnimClear(t) \/ TaskAnimRender(t)
    \/ TaskAnimDrop(t) \/ TaskSleep(t) \/ TaskCheck(t) \/ TaskUnlock(t)

TaskFault(t) ==
    \/ TaskPrimeRenderFails(t) \/ TaskAnimRenderFails(t)

DisplayStep ==
    \/ DisplayStop \/ DisplayJoin \/ DisplayJoinPanic
    \/ DisplayStart \/ DisplaySpawn \/ DisplayReturn

Next ==
    \/ DisplayCall
    \/ DisplayStep
    \/ DropPrinter
    \/ \E t \in Tasks : TaskStep(t)
    \/ \E t \in Tasks : TaskFault(t)
    \/ ReaderAcquire
    \/ ReaderRelease

Spec == Init /\ [][Next]_vars

\* Scheduling: the thread inside display() and every spawned thread keep
\* running while they can take a step. Strongly so: a lock that is free again
\* and again is obtained, as the spawned thread holds the Mutex only from its
\* read to the end of its println! and then sleeps step_period ms, and a
\* reader holds its guard for one refresh. A reader gives its guard back.
\* Nobody is obliged to call display() or to drop the printer, and the target
\* need not refuse a pixel.
Fairness ==
    /\ SF_vars(DisplayStep)
    /\ \A t \in Tasks : SF_vars(TaskStep(t))
    /\ WF_vars(ReaderRelease)

LiveSpec == Init /\ [][Next]_vars /\ Fairness

\* The scenario of one request of a 50 px text at 75 ms per pixel: new(.., 75),
\* one display("W50"), and the thread left to run.
ScrollInit == New(75, ScenarioTicks)

ScrollDisplay == calls = 0 /\ Display("W50")

ScrollNext ==
    \/ ScrollDisplay
    \/ DisplayStart \/ DisplaySpawn \/ DisplayReturn
    \/ TaskMeasure(1) \/ TaskPrimeLock(1) \/ TaskPrimeClear(1)
    \/ TaskPrimeRender(1) \/ TaskPrimeDrop(1)
    \/ TaskWait(1) \/ TaskDue(1)
    \/ TaskAnimLock(1) \/ TaskAnimClear(1) \/ TaskAnimRender(1)
    \/ TaskAnimDrop(1) \/ TaskSleep(1) \/ TaskCheck(1) \/ TaskUnlock(1)

ScrollSpec == ScrollInit /\ [][ScrollNext]_vars

\* The match on `direction` alone, applied again and again to a scroll state:
\* any width, any offset in or around [0, width], either direction. The pc
\* tells where the run started: at (0, Right) as display_task does, at
\* another offset within [0, width], or outside of it.
Offsets == (0 - 2)..(MaxWidth + 2)

StartOf(x, dir, width) ==
    IF x = 0 /\ dir = "Right" THEN "from_origin"
    ELSE IF 0 <= x /\ x <= width THEN "from_range" ELSE "from_outside"

EngineInit ==
    /\ horizon = EngineSteps
    /\ scroll_spp_ms = 0
    /\ display_task = 0
    /\ controller = FALSE
    /\ mutex = 0
    /\ canvas = EmptyCanvas
    /\ rw = [writer |-> 0, readers |-> 0, poisoned |-> FALSE]
    /\ pc_ctrl = "idle"
    /\ handle = 0
    /\ calls = 0
    /\ request = [c \in Tasks |-> ""]
    /\ stopped = {}
    /\ joined = {}
    /\ \E w \in 0..MaxWidth, x \in Offsets, dir \in {"Left", "Right"} :
          task = [t \in Tasks |->
                    IF t = 1 THEN [NoTask EXCEPT !.pc = StartOf(x, dir, w),
                                                 !.width = w,
                                                 !.x_pos = x,
                                                 !.direction = dir]
                             ELSE NoTask]

EngineStep ==
    /\ task[1].pc \in {"from_origin", "from_range", "from_outside"}
    /\ task[1].steps < horizon
    /\ LET next == ScrollStep(task[1].x_pos, task[1].direction, task[1].width)
       IN task' = [task EXCEPT ![1].x_pos = next.x_pos,
                               ![1].direction = next.direction,
                               ![1].steps = @ + 1]
    /\ UNCHANGED <<controller, mutex, canvas, rw, OtherVars>>

EngineSpec == EngineInit /\ [][EngineStep]_vars

\* One request of a text of width 0, and the thread left to run.
ZeroInit == \E spp \in Spps : New(spp, ScenarioTicks)

ZeroDisplay == calls = 0 /\ Display("Z")

ZeroNext ==
    \/ ZeroDisplay
    \/ DisplayStart \/ DisplaySpawn \/ DisplayReturn
    \/ TaskMeasure(1) \/ TaskPrimeLock(1) \/ TaskPrimeClear(1)
    \/ TaskPrimeRender(1) \/ TaskPrimeDrop(1)
    \/ TaskWait(1) \/ TaskDue(1)
    \/ TaskAnimLock(1) \/ TaskAnimClear(1) \/ TaskAnimRender(1)
    \/ TaskAnimDrop(1) \/ TaskSleep(1) \/ TaskCheck(1) \/ TaskUnlock(1)

ZeroSpec == ZeroInit /\ [][ZeroNext]_vars

\* ---- properties ---------------------------------------------------------

Alive(t) == task[t].pc \notin {"unspawned", "done", "panicked"}
Exited(t) == task[t].pc \in {"done", "panicked"}
Writing(t) == rw.writer = t
Painted(t) == task[t].writes > 0
FramesOf(t) == {f \in canvas.frames : f[1] = t}

\* C1: at most one animation thread is alive in every reachable state, so no
\* thread is spawned while an older one can still render, and the write guard
\* is only ever with the one live thread.
C1_AtMostOneTaskAlive ==
    /\ \A t1, t2 \in Tasks : Alive(t1) /\ Alive(t2) => t1 = t2
    /\ \A t \in Tasks : Writing(t) => Alive(t)

\* A second thread is running after the first one was retired.
C1_Witness ==
    \E t1, t2 \in Tasks : t1 < t2 /\ task[t1].pc = "done" /\ Painted(t1) /\ Writing(t2)

\* C2: when display() meets a previous thread, the stop signal comes first,
\* then that thread's exit, then the end of the join, and only then the first
\* write of the new thread; once the new thread has written, the old one
\* writes no more.
C2_StopExitJoinWrite ==
    /\ [](\A t \in Tasks :
            /\ task[t].pc = "done" => t \in stopped
            /\ t \in joined => Exited(t) /\ t \in stopped
            /\ (t > 1 /\ (Painted(t) \/ Writing(t)))
                  => (t - 1) \in joined /\ task[t - 1].pc = "done")
    /\ [][\A old, new \in Tasks :
            (old < new /\ (Painted(new) \/ Writing(new)))
                => /\ task'[old].writes = task[old].writes
                   /\ ~Writing(old)']_vars

\* The new thread has painted after the old one, which had painted too, was joined.
C2_Witness ==
    \E t \in Tasks : t > 1 /\ Painted(t) /\ (t - 1) \in joined /\ task[t - 1].writes > 1

InDisplay == pc_ctrl \in {"stop", "join", "start", "spawn", "return"}
Failure == \E t \in Tasks : task[t].pc = "panicked"

\* C3: under fair scheduling and without a rendering failure every display()
\* call returns; while it joins it holds no lock, its second lock is always
\* free, and its first lock is at most with the old thread printing its line,
\* so the join is the only place where it waits for the thread to get on.
C3_DisplayReturns ==
    /\ [](pc_ctrl = "join" => mutex # -1)
    /\ [](pc_ctrl = "start" => mutex = 0)
    /\ [](pc_ctrl = "stop" /\ mutex # 0 => mutex = handle /\ task[handle].pc = "println")
    /\ [](InDisplay => <>(pc_ctrl = "idle" \/ Failure))

\* display() is blocked in the join of a thread that has not seen the signal.
C3_Witness ==
    /\ pc_ctrl = "join" /\ Alive(handle) /\ task[handle].running
    /\ task[handle].pc = "sleep" /\ ~Failure

\* The scenario display("A") immediately followed by display("B").
ScenarioAB == calls >= 2 /\ request[1] = "A" /\ request[2] = "B"
Readable == rw.writer = 0 /\ ~rw.poisoned

\* C4 as stated: in the scenario no frame of "A" is ever on the Canvas where
\* a reader could observe it.
C4_ANeverVisible == ScenarioAB /\ Readable => FramesOf(1) = {}

\* C4 as amended: in the scenario the thread of "A" paints its priming frame
\* before it can see the stop signal, so it has painted when it returns, and
\* its last frame stays on the Canvas, for any reader, until the thread of "B"
\* clears the Canvas; from that clear on, no frame of "A" is on the Canvas.
C4_AVisibleUntilB ==
    ScenarioAB =>
        /\ task[1].pc = "done" => Painted(1)
        /\ (task[1].pc = "done" /\ canvas.bg < 2)
              => canvas.bg = 1 /\ Cardinality(FramesOf(1)) = 1
        /\ canvas.bg >= 2 => FramesOf(1) = {}

\* A reader holds the Canvas with the frame of "A" on it, after the join of
\* "A" in display("B") and before the thread of "B" is spawned.
C4_Witness ==
    /\ ScenarioAB /\ 1 \in joined /\ task[1].pc = "done" /\ pc_ctrl = "start"
    /\ rw.readers = 1 /\ canvas.bg = 1 /\ FramesOf(1) # {}

\* C5: once the thread of the most recent display() call has painted its
\* priming frame, all that is on the Canvas is of that call: its background
\* and frames of its text.
C5_LastRequestWins ==
    (calls > 0 /\ Painted(calls)) =>
        /\ canvas.bg = calls
        /\ \A f \in canvas.frames : f[1] = calls

\* The second request has been repainted, after a first one that was shown.
C5_Witness ==
    calls = 2 /\ Painted(1) /\ task[2].writes > 1 /\ canvas.frames # {}

\* C6: whenever the write guard is free for a reader (and the lock is not
\* poisoned, which makes read() fail) and a frame has been painted, the Canvas
\* holds one complete frame: the background and one painted text, both of the
\* same request, at one offset.
C6_NoHybridFrame ==
    (Readable /\ \E t \in Tasks : Painted(t)) =>
        /\ Cardinality(canvas.frames) = 1
        /\ \A f \in canvas.frames : f[1] = canvas.bg

\* A reader holds the Canvas while the second request is in its animation.
C6_Witness ==
    /\ rw.readers = 1 /\ Painted(1) /\ task[2].writes > 1
    /\ canvas.frames = {<<2, 1>>}

\* C7 as stated: a thread that panics takes nothing else down, the caller of
\* display() included.
C7_FailureIsContained == Failure => pc_ctrl # "panicked"

AtTick(t) == task[t].pc = "check" /\ task[t].ticks < horizon

\* C8 as stated: with ms_per_pixel = 0 every tick comes with one repaint and
\* one step of the scroll state.
C8_StepEveryTick ==
    \A t \in Tasks : scroll_spp_ms = 0 /\ AtTick(t) => task[t].steps = task[t].ticks

\* C8 as amended: with ms_per_pixel = 0 the loop repaints and steps on every
\* second tick (a tick that counts, then a tick that repaints), so after n
\* ticks there were n / 2 steps (rounded down) and, with the priming frame,
\* n / 2 + 1 paints; the accumulator is 0 or 1.
C8_StepEverySecondTick ==
    \A t \in Tasks :
        scroll_spp_ms = 0 /\ AtTick(t) =>
            /\ task[t].steps = task[t].ticks \div 2
            /\ task[t].writes = task[t].steps + 1
            /\ task[t].previous_update = task[t].ticks % 2

\* Four ticks at ms_per_pixel = 0 have brought two steps.
C8_Witness ==
    \E t \in Tasks : scroll_spp_ms = 0 /\ AtTick(t) /\ task[t].ticks = 4 /\ task[t].steps = 2

\* The scroll state after k steps from (0, Right) over a text of width w.
Bounce(k, w) ==
    LET m == k % (2 * w + 2)
    IN IF m <= w THEN [x_pos |-> m, direction |-> "Right"]
                 ELSE [x_pos |-> 2 * w + 1 - m, direction |-> "Left"]

\* C9 as stated: the offset grows by 1 every 8 ticks and the state is back
\* at (0, Right) after 800 ticks.
C9_BackAfter800Ticks ==
    AtTick(1) =>
        /\ task[1].ticks = 8 => task[1].x_pos = 1
        /\ task[1].ticks = 800 => task[1].x_pos = 0 /\ task[1].direction = "Right"

\* C9 as amended: for a text of width 50 with ms_per_pixel = 75 and a 10 ms
\* tick, the offset grows by 1 every 9 ticks (after n ticks there were n / 9
\* steps), reaches 50 after 450 ticks, stays one update at each end, and the
\* state is back at (0, Right) for the first time after (2 * 50 + 2) * 9 = 918
\* ticks.
C9_BackAfter918Ticks ==
    AtTick(1) =>
        /\ task[1].width = 50
        /\ task[1].steps = task[1].ticks \div 9
        /\ task[1].x_pos = Bounce(task[1].steps, 50).x_pos
        /\ task[1].direction = Bounce(task[1].steps, 50).direction
        /\ task[1].ticks = 450 => task[1].x_pos = 50 /\ task[1].direction = "Right"
        /\ (task[1].x_pos = 0 /\ task[1].direction = "Right")
              <=> (task[1].ticks < 9 \/ task[1].ticks >= 918)

\* The state is (0, Right) again at tick 918.
C9_Witness ==
    /\ AtTick(1) /\ task[1].ticks = 918 /\ task[1].steps = 102
    /\ task[1].x_pos = 0 /\ task[1].direction = "Right"

Dropped(t) == pc_ctrl = "dropped" /\ display_task = t
Panicked(t) == task[t].pc = "panicked"

\* C10: when the printer is dropped while it holds a running thread, the flag
\* stays true and the thread never returns; unless the target refuses a
\* pixel, it goes on sleeping and repainting for ever.
C10_DroppedPrinterLeavesTask ==
    \A t \in Tasks :
        /\ [](Dropped(t) /\ ~Panicked(t) => controller /\ Alive(t))
        /\ [](Dropped(t) => <>(task[t].pc = "sleep" \/ Panicked(t)))
        /\ [](Dropped(t) => <>(task[t].pc = "anim_render" \/ Panicked(t)))

\* The printer is gone and its thread is repainting.
C10_Witness ==
    \E t \in Tasks : Dropped(t) /\ task[t].pc = "anim_render" /\ task[t].steps > 1

\* C11: once display() has cleared the flag, the old thread begins at most one
\* more sleep and paints at most one more frame; the check after that sleep
\* reads false, and the thread returns without a second tick.
C11_StopWithinOneTick ==
    \A t \in Tasks :
        /\ task[t].late_sleeps <= 1
        /\ task[t].late_writes <= 1
        /\ (task[t].late_sleeps = 1 /\ task[t].pc \in {"println", "loop", "done"})
              => ~task[t].running
        /\ task[t].pc = "done" => t \in stopped /\ ~task[t].running

\* The thread returned after one sleep and one repaint that came after the signal.
C11_Witness ==
    \E t \in Tasks :
        task[t].pc = "done" /\ task[t].late_sleeps = 1 /\ task[t].late_writes = 1
            /\ task[t].steps > 0

InRange(t) == 0 <= task[t].x_pos /\ task[t].x_pos <= task[t].width
EngineRun == task[1].pc \in {"from_origin", "from_range", "from_outside"}

Spawned(t) == task[t].pc \notin {"unspawned", "measure", "panicked"}

\* C13: for a text of width 0 the offset is 0 after every step, every frame
\* is painted at offset 0, and the direction turns at every step: it is Right
\* after an even number of steps and Left after an odd number.
C13_ZeroWidthStaysAtZero ==
    Spawned(1) =>
        /\ task[1].width = 0
        /\ task[1].x_pos = 0
        /\ \A f \in canvas.frames : f[2] = 0
        /\ task[1].steps < horizon =>
              task[1].direction = (IF task[1].steps % 2 = 0 THEN "Right" ELSE "Left")

\* Three steps were taken: the direction is Left and the frame is at offset 0.
C13_Witness ==
    /\ task[1].pc = "sleep" /\ task[1].width = 0 /\ task[1].steps = 3
    /\ task[1].direction = "Left" /\ canvas.frames = {<<1, 0>>}

NextOffset(t) == ScrollStep(task[t].x_pos, task[t].direction, task[t].width).x_pos
BetweenRepaints(t) == task[t].pc \in {"sleep", "check", "println", "loop", "anim_lock"}

\* C14 as stated: a timed repaint paints the frame at the next offset, the
\* one the step produces from the scroll state held just before the repaint.
C14_PaintsNextOffset ==
    \A t \in Tasks : task[t].pc = "anim_drop" => canvas.frames = {<<t, NextOffset(t)>>}

\* C14 as amended: a timed repaint paints the frame at the current offset,
\* the one of the scroll state held just before the repaint, and the state is
\* advanced by one step afterwards: after k steps the state is the k-th of the
\* bounce and the frame on the Canvas is at the offset of the (k-1)-th.
C14_PaintsCurrentOffset ==
    \A t \in Tasks :
        /\ task[t].pc = "anim_drop" => canvas.frames = {<<t, task[t].x_pos>>}
        /\ (BetweenRepaints(t) /\ task[t].steps > 0 /\ task[t].steps < horizon)
              => /\ canvas.frames = {<<t, Bounce(task[t].steps - 1, task[t].width).x_pos>>}
                 /\ task[t].x_pos = Bounce(task[t].steps, task[t].width).x_pos
                 /\ task[t].direction = Bounce(task[t].steps, task[t].width).direction

\* The state has moved on to offset 2 and the frame on the Canvas is at 1.
C14_Witness ==
    \E t \in Tasks :
        /\ task[t].pc = "sleep" /\ task[t].steps = 2 /\ task[t].x_pos = 2
        /\ canvas.frames = {<<t, 1>>}

Priming(t) == task[t].pc \in {"prime_lock", "prime_clear", "prime_render", "prime_drop"}

\* C15: scroll state is not carried across requests. Every task, whatever
\* its predecessors did, goes through priming and into its first loop test at
\* offset 0, direction Right, with an empty tick accumulator, and the priming
\* frame it leaves on the Canvas is at offset 0.
C15_EveryTaskStartsAtOrigin ==
    \A t \in Tasks :
        /\ (Priming(t) \/ (Alive(t) /\ Spawned(t) /\ task[t].steps = 0))
              => task[t].x_pos = 0 /\ task[t].direction = "Right"
        /\ Priming(t) => task[t].previous_update = 0 /\ task[t].ticks = 0
        /\ task[t].pc = "prime_drop" => canvas.frames = {<<t, 0>>}

\* A second task has painted its priming frame at 0 after the first was
\* stopped on its way back, at offset 1.
C15_Witness ==
    \E t \in Tasks :
        /\ t > 1 /\ task[t].pc = "prime_drop" /\ canvas.frames = {<<t, 0>>}
        /\ task[t - 1].pc = "done" /\ task[t - 1].x_pos = 1
        /\ task[t - 1].direction = "Left"

Cleared(t) == task[t].pc \in {"prime_render", "anim_render"}
PaintedOnce(t) == task[t].pc \in {"prime_drop", "anim_drop"}
HoldsGuard(t) == task[t].pc \in {"prime_clear", "anim_clear"} \/ Cleared(t) \/ PaintedOnce(t)

\* C16: a task holds the write lock of the Canvas exactly from a
\* `write()` to the `drop` that follows its one clear and one paint: never
\* while it sleeps, takes the TaskControl lock or holds it. Inside the guard
\* the Canvas goes from cleared by this task to holding this task's one frame,
\* and the guard is released only in that last condition.
C16_WriteLockOnlyForClearAndPaint ==
    /\ [](\A t \in Tasks :
            /\ Alive(t) => (Writing(t) <=> HoldsGuard(t))
            /\ task[t].pc \in {"sleep", "check", "println"} => rw.writer = 0
            /\ Writing(t) => mutex # t /\ rw.readers = 0
            /\ Cleared(t) => canvas = [bg |-> t, frames |-> {}]
            /\ PaintedOnce(t) => canvas = [bg |-> t, frames |-> {<<t, task[t].x_pos>>}])
    /\ [][\A t \in Tasks : (Writing(t) /\ ~Writing(t)' /\ ~rw'.poisoned)
                               => PaintedOnce(t) /\ canvas' = canvas]_vars

\* A reader holds the Canvas while a task that has painted twice sleeps.
C16_Witness ==
    \E t \in Tasks :
        /\ task[t].pc = "sleep" /\ task[t].writes >= 2
        /\ rw.writer = 0 /\ rw.readers > 0

FlagChanges == controller' # controller
StopRequest == pc_ctrl = "stop" /\ pc_ctrl' = "join" /\ controller /\ ~controller'
StartRequest == pc_ctrl = "start" /\ pc_ctrl' = "spawn" /\ ~controller /\ controller'
ReadsFlag(t) == task[t].pc = "check" /\ task'[t].pc = "println" /\ mutex = 0 /\ mutex' = t

\* C17: no step of a task changes the shared flag; a task copies it into
\* its `running` only in the check after a sleep, with the mutex taken. The flag
\* changes only in display(): to false at the stop request, to true before
\* the spawn.
C17_OnlyDisplayWritesFlag ==
    /\ [][FlagChanges => task' = task /\ (StopRequest \/ StartRequest)]_vars
    /\ [][\A t \in Tasks :
            (Spawned(t) /\ task'[t].running # task[t].running)
               => ReadsFlag(t) /\ task'[t].running = controller /\ ~FlagChanges]_vars

\* A task has read a stop request; the flag is still false after the read.
C17_Witness ==
    \E t \in Tasks :
        /\ task[t].pc = "println" /\ ~task[t].running /\ mutex = t
        /\ ~controller /\ pc_ctrl = "join"

SawStop(t) == Spawned(t) /\ ~task[t].running
Signalled(t) == t \in stopped /\ calls > t

\* C18: no spurious termination. The flag is true, and the mutex held by
\* display(), from before the spawn to the return of display(), so a task never
\* reads the false left for its predecessor: a task reads false, and returns,
\* only after a display() call made after its own has signalled it, and while
\* no such call has been made the flag stays true.
C18_NoSpuriousTermination ==
    /\ pc_ctrl \in {"spawn", "return"} => controller /\ mutex = -1
    /\ \A t \in Tasks :
          /\ SawStop(t) => Signalled(t)
          /\ task[t].pc = "done" => SawStop(t)
          /\ (Alive(t) /\ ~Signalled(t)) => controller

\* A second task has read the flag as true after the first was stopped.
C18_Witness ==
    \E t \in Tasks :
        /\ t > 1 /\ (t - 1) \in stopped /\ task[t - 1].pc = "done"
        /\ task[t].pc = "println" /\ task[t].running /\ t \notin stopped

AliveTasks == {t \in Tasks : Alive(t)}
HandleHeld == display_task # 0
OneAlive == Cardinality(AliveTasks) = 1
BetweenCalls == pc_ctrl = "idle"

\* C19 as stated: in every state between display() calls, a handle is held,
\* the flag is true and exactly one task is alive, or none of the three.
C19_AllOrNone ==
    BetweenCalls => (HandleHeld <=> controller) /\ (controller <=> OneAlive)

\* C19 as amended: before the first display() there is no handle, the flag
\* is false, no task is alive and the Canvas is unwritten. Between display()
\* calls a handle is held exactly if the flag is true, exactly if display() was
\* called; the handle is that of the last call, and unless the task has failed
\* it is the one task alive. The handle changes only in display(): taken at the
\* entry, stored at the spawn.
C19_TwoStates ==
    /\ [](calls = 0 =>
            /\ ~HandleHeld /\ ~controller /\ AliveTasks = {}
            /\ canvas = EmptyCanvas /\ rw.writer = 0)
    /\ [](BetweenCalls =>
            /\ (HandleHeld <=> controller)
            /\ (HandleHeld <=> calls > 0)
            /\ (HandleHeld => display_task = calls)
            /\ (~Failure => (controller <=> OneAlive))
            /\ ((HandleHeld /\ ~Failure) => AliveTasks = {display_task}))
    /\ [][display_task' # display_task =>
             \/ BetweenCalls /\ pc_ctrl' \in {"stop", "start"} /\ display_task' = 0
             \/ pc_ctrl = "spawn" /\ pc_ctrl' = "return" /\ display_task' = calls]_vars

\* After the second display() returned: the second task is the one alive.
C19_Witness ==
    /\ BetweenCalls /\ calls = 2 /\ display_task = 2 /\ controller
    /\ AliveTasks = {2} /\ task[1].pc = "done" /\ task[2].writes >= 1

AtEnd(t) ==
    \/ task[t].direction = "Right" /\ task[t].x_pos = task[t].width
    \/ task[t].direction = "Left" /\ task[t].x_pos = 0
Ahead(t) == IF task[t].direction = "Right" THEN task[t].x_pos + 1 ELSE task[t].x_pos - 1
AtOrigin(t) == task[t].x_pos = 0 /\ task[t].direction = "Right"
Period(t) == 2 * task[t].width + 2

\* C20: every step of the bounce rule changes exactly one of offset and
\* direction: at an end (offset = width going Right, offset = 0 going Left) the
\* direction flips and the offset stays, elsewhere the offset moves by 1 in
\* the current direction and the direction stays. From (0, Right) the state
\* after k steps is the k-th of the bounce with a dwell at each end, and it is
\* (0, Right) again exactly at the multiples of 2 * width + 2.
C20_OneComponentPerStep ==
    /\ [][EngineRun =>
             /\ (task'[1].x_pos # task[1].x_pos) # (task'[1].direction # task[1].direction)
             /\ IF AtEnd(1)
                THEN task'[1].x_pos = task[1].x_pos /\ task'[1].direction # task[1].direction
                ELSE task'[1].x_pos = Ahead(1) /\ task'[1].direction = task[1].direction]_vars
    /\ [](task[1].pc = "from_origin" =>
             /\ AtOrigin(1) <=> task[1].steps % Period(1) = 0
             /\ task[1].x_pos = Bounce(task[1].steps, task[1].width).x_pos
             /\ task[1].direction = Bounce(task[1].steps, task[1].width).direction)

\* The first return to (0, Right) with width 2, after 6 steps.
C20_Witness ==
    /\ task[1].pc = "from_origin" /\ task[1].width = 2 /\ task[1].steps = 6
    /\ AtOrigin(1)

====
